---------------------------- MODULE Spec2Model ----------------------------
(***************************************************************************)
(* Model of the rhythm game: the App component (score / combo /           *)
(* multiplier / health / lifecycle, src/App.tsx), the GameScene frame      *)
(* loop (note admission and hit/miss judging, src/unnamed/part_000) and    *)
(* the hand tracking hook useMediaPipe (src/components/Note.tsx).          *)
(*                                                                         *)
(* Units.  Lengths are in 1/100 of a world unit, playback times in 1/20 of *)
(* a second, velocities in 1/100 of a world unit per second and the times  *)
(* between two detections in milliseconds, so that every threshold of the  *)
(* code is an integer: 0.8 -> 80, 1.5 -> 150, 1.0 -> 100, 5 -> 500,        *)
(* -30 -> -3000, and NOTE_SPEED = 10 units/s = 50 (1/100 unit) per         *)
(* (1/20 s).  A fingertip is given in 1/500 of the frame width and 1/70 of *)
(* the frame height, which makes mapHandToWorld exact.                     *)
(*                                                                         *)
(* React.  useState setters called from the frame loop, from a timer or    *)
(* from a promise continuation are batched: they are put in a queue        *)
(* (pending) and applied, in dispatch order per hook, by the next render   *)
(* of App (action Render).  Setters called from a click handler are        *)
(* flushed when the handler returns, so the click actions assign the state *)
(* directly.  The frame callback sees the props and closures of the last   *)
(* render: gameStatus and the multiplier captured by handleNoteHit are the *)
(* rendered values.                                                        *)
(***************************************************************************)
EXTENDS Integers, Sequences, FiniteSets, TLC

VARIABLES
    gameStatus,     \* App: useState<GameStatus>            (App.tsx:18)
    score,          \* App: useState(0)                     (App.tsx:19)
    combo,          \* App: useState(0)                     (App.tsx:20)
    multiplier,     \* App: useState(1)                     (App.tsx:21)
    health,         \* App: useState(100)                   (App.tsx:22)
    pending,        \* App: state updates dispatched and not yet rendered
    endTimers,      \* number of setTimeout(() => endGame(false), 0) not yet run
    isCameraReady,  \* useMediaPipe: the sensing collaborator is ready
    error,          \* useMediaPipe: useState<string | null>(null)
    playPromises,   \* startGame calls suspended at `await audio.play()`
    audioTime,      \* audioRef.current.currentTime
    audioPlaying,   \* the audio element is playing (not paused)
    notes,          \* the chart's mutable flags: notes[i].hit, notes[i].missed
    activeNotes,    \* GameScene: activeNotesRef.current (chart indices)
    nextNoteIndex,  \* GameScene: nextNoteIndexRef.current
    hands,          \* handPositionsRef.current
    evCount,        \* history: Hit/Missed events emitted per note this session
    gCombo,         \* history: hits emitted since the last miss or start
    gScore,         \* history: the score the scoring rule of the spec gives
    lastEvent,      \* history: the last judge event emitted ("none" at start)
    defeatSignalled, \* history: a miss has brought health to 0 (timer scheduled)
    fresh,          \* history: a session was started and no frame of it has run
    lastSeen        \* history: the sides in the last detection; per hand, the
                    \* last position given to it and the time since then;
                    \* what the last cycle's catch block caught

vars == << gameStatus, score, combo, multiplier, health, pending, endTimers,
           isCameraReady, error, playPromises, audioTime, audioPlaying,
           notes, activeNotes, nextNoteIndex, hands, evCount, gCombo, gScore,
           lastEvent, defeatSignalled, fresh, lastSeen >>


-----------------------------------------------------------------------------
(* Bounds of the model: the chart and the song it is played to.            *)

NumNotes == 13        \* notes in the chart
BurstSize == 10       \* the first BurstSize notes share one arrival time
FirstNoteTime == 62   \* arrival time of the first notes
NoteGap == 10         \* time between the later notes
SongLength == 85      \* duration of the audio: audio.ended at this time
LastNoteTime == 143   \* arrival time of the last note, after the audio ends
MaxActiveChecked == 3 \* most active notes of a state ENABLED is evaluated in
MaxFrameStep == 12    \* most the audio clock advances between two frames
MaxTimerDelay == 1    \* most it advances before a zero-delay timer runs
MaxStartClicks == 2   \* most startGame calls suspended at audio.play()
MaxPending == 4       \* a frame runs only with at most this many queued updates
MaxGap == 51          \* longest time (ms) a hand stays away in the history

-----------------------------------------------------------------------------
(* constants.ts                                                            *)

SPAWN_Z == -3000
PLAYER_Z == 0
MISS_Z == 500
NOTE_SPEED == 50
LANE_X_POSITIONS == << -120, -40, 40, 120 >>
LAYER_Y_POSITIONS == << 80, 160, 240 >>

Vec(x, y, z) == [x |-> x, y |-> y, z |-> z]

DIRECTION_VECTORS ==
    [d \in {"UP", "DOWN", "LEFT", "RIGHT", "ANY"} |->
        CASE d = "UP"    -> Vec(0, 1, 0)
          [] d = "DOWN"  -> Vec(0, -1, 0)
          [] d = "LEFT"  -> Vec(-1, 0, 0)
          [] d = "RIGHT" -> Vec(1, 0, 0)
          [] d = "ANY"   -> Vec(0, 0, 0)]

(* The chart handed to GameScene, sorted by time as generateDemoChart      *)
(* returns it: a burst of simultaneous left-hand notes, then notes that    *)
(* alternate hand, lane and layer like the patterns of the demo chart.     *)
(* The chart is generated without regard to the length of the audio: its   *)
(* last note arrives after the audio has ended.                            *)
ChartNote(i) ==
    IF i = NumNotes
    THEN [time |-> LastNoteTime, lineIndex |-> 2, lineLayer |-> 2,
          type |-> "right", cutDirection |-> "ANY"]
    ELSE IF i <= BurstSize
    THEN [time |-> FirstNoteTime, lineIndex |-> 1, lineLayer |-> 0,
          type |-> "left", cutDirection |-> "ANY"]
    ELSE LET k == i - BurstSize IN
         [time |-> FirstNoteTime + NoteGap * k,
          lineIndex |-> IF k % 2 = 1 THEN 1 ELSE 2,
          lineLayer |-> IF k % 2 = 1 THEN 0 ELSE 2,
          type |-> IF k % 2 = 1 THEN "left" ELSE "right",
          cutDirection |-> IF k % 2 = 1 THEN "DOWN" ELSE "ANY"]

NoteIds == 1 .. NumNotes

-----------------------------------------------------------------------------
(* useMediaPipe: the detections and the hand state in handPositionsRef.    *)

(* An untracked hand: the position is null *)
NoHand == [null |-> TRUE]
ZeroVel == Vec(0, 0, 0)

(* mapHandToWorld(x, y) for a fingertip at x/500 of the width and y/70 of  *)
(* the height: worldX = (0.5 - x) * 5, worldY = (1 - y) * 3.5 - 1.75 + 0.8 *)
(* and worldZ = -max(0, worldY * 0.2); the y returned is max(0.1, worldY). *)
MapHandToWorld(x, y) ==
    LET worldX == 250 - x
        worldY == 255 - 5 * y
        worldZ == - (IF worldY \div 5 > 0 THEN worldY \div 5 ELSE 0)
    IN  Vec(worldX, IF worldY > 10 THEN worldY ELSE 10, worldZ)

(* One entry of results.landmarks with its results.handedness: the         *)
(* category name and the index finger tip (landmark 8).                    *)
Landmark(categoryName, x, y) == [categoryName |-> categoryName, x |-> x, y |-> y]

(* The fingertips the detector reports.  The left hand is seen at the slot *)
(* of the left-hand notes, below it or above it; the right hand at the     *)
(* slot of the right-hand notes or beside it, exactly 0.8 away from a note *)
(* that is 0.48 in front of it.                                            *)
LeftHomeTip == Landmark("Left", 290, 35)
LeftLowTip == Landmark("Left", 290, 40)
LeftHighTip == Landmark("Left", 290, 30)
RightHomeTip == Landmark("Right", 210, 3)
RightEdgeTip == Landmark("Right", 146, 3)

LeftTips == { LeftHomeTip, LeftLowTip, LeftHighTip }
RightTips == { RightHomeTip, RightEdgeTip }

(* results.landmarks of one detection: no hand, one hand or both hands *)
DetectionSets ==
    { << >> } \cup { << l >> : l \in LeftTips } \cup { << r >> : r \in RightTips }
        \cup { << l, r >> : l \in LeftTips, r \in RightTips }

(* deltaTime of processResults: the milliseconds since the previous call  *)
DeltaTimes == { 1, 50 }

(* The detections fed to the game while it is played: the left hand at the *)
(* slot or moving down from it, the right hand at its slot together with   *)
(* the left one, a detection every 50 ms.                                  *)
GameDetectionSets ==
    { << >>, << LeftHomeTip >>, << LeftLowTip >>,
      << LeftHomeTip, RightHomeTip >>, << LeftLowTip, RightHomeTip >> }
GameDeltaTimes == { 50 }

HandFrame(l, r, lv, rv) ==
    [left |-> l, right |-> r, leftVelocity |-> lv, rightVelocity |-> rv]

(* Mutation of NewPositions: the first landmark of a side gives newLeft /  *)
(* newRight, a later one of the same side is passed over                   *)
NewPositionsFirst(landmarks, acc) ==
    LET rights == { i \in 1 .. Len(landmarks) :
                       landmarks[i].categoryName = "Right" }
        lefts == (1 .. Len(landmarks)) \ rights
        First(S) == CHOOSE i \in S : \A j \in S : i <= j
    IN  [newLeft |-> IF lefts = {} THEN acc.newLeft
                     ELSE MapHandToWorld(landmarks[First(lefts)].x,
                                         landmarks[First(lefts)].y),
         newRight |-> IF rights = {} THEN acc.newRight
                      ELSE MapHandToWorld(landmarks[First(rights)].x,
                                          landmarks[First(rights)].y)]

(* processResults: the loop over results.landmarks, the last landmark of a *)
(* side gives newLeft / newRight                                          *)
RECURSIVE NewPositions(_, _)
NewPositions(landmarks, acc) ==
    IF landmarks = << >> THEN acc
    ELSE LET worldPos == MapHandToWorld(Head(landmarks).x, Head(landmarks).y)
             isRight == Head(landmarks).categoryName = "Right"
         IN  NewPositions(Tail(landmarks),
                          IF isRight THEN [acc EXCEPT !.newRight = worldPos]
                                     ELSE [acc EXCEPT !.newLeft = worldPos])

(* newLeft.lerpVectors(s.left, newLeft, LERP) with LERP = 0.6 *)
LerpVectors(a, b) ==
    Vec(a.x + ((b.x - a.x) * 3) \div 5,
        a.y + ((b.y - a.y) * 3) \div 5,
        a.z + ((b.z - a.z) * 3) \div 5)

(* s.leftVelocity.subVectors(newLeft, s.left).divideScalar(deltaTime),     *)
(* deltaTime being in seconds in the code and in milliseconds here         *)
VelocityOver(newPos, oldPos, deltaTime) ==
    Vec(((newPos.x - oldPos.x) * 1000) \div deltaTime,
        ((newPos.y - oldPos.y) * 1000) \div deltaTime,
        ((newPos.z - oldPos.z) * 1000) \div deltaTime)

(* Mutation of UpdateHand: the velocity is worked out whatever deltaTime   *)
(* is, `if (deltaTime > 0.001)` is left out                                *)
UpdateHandNoThreshold(pos, vel, newPos, deltaTime) ==
    IF newPos # NoHand
    THEN IF pos # NoHand
         THEN LET smoothed == LerpVectors(pos, newPos)
              IN  [pos |-> smoothed,
                   vel |-> VelocityOver(smoothed, pos, deltaTime)]
         ELSE [pos |-> newPos, vel |-> vel]
    ELSE [pos |-> NoHand, vel |-> vel]

(* Mutation of UpdateHand: a hand the detection does not hold keeps the    *)
(* position it had.                                                        *)
UpdateHandCarried(pos, vel, newPos, deltaTime) ==
    IF newPos # NoHand
    THEN IF pos # NoHand
         THEN LET smoothed == LerpVectors(pos, newPos)
              IN  [pos |-> smoothed,
                   vel |-> IF deltaTime > 1
                           THEN VelocityOver(smoothed, pos, deltaTime)
                           ELSE vel]
         ELSE [pos |-> newPos, vel |-> vel]
    ELSE [pos |-> pos, vel |-> vel]

(* processResults: the update of one hand (the Left and the Right blocks)  *)
(* from its position and velocity to the new ones.                         *)
UpdateHand(pos, vel, newPos, deltaTime) ==
    IF newPos # NoHand
    THEN IF pos # NoHand
         THEN LET smoothed == LerpVectors(pos, newPos)
              IN  [pos |-> smoothed,
                   vel |-> IF deltaTime > 1
                           THEN VelocityOver(smoothed, pos, deltaTime)
                           ELSE vel]
         ELSE [pos |-> newPos, vel |-> vel]
    ELSE [pos |-> NoHand, vel |-> vel]

(* The detections the model follows exactly: a smoothing step and a        *)
(* velocity that are whole numbers of the units, a left hand that comes    *)
(* into view at the slot of the left-hand notes.                           *)
Exact(pos, newPos, deltaTime) ==
    IF newPos = NoHand \/ pos = NoHand THEN TRUE
    ELSE /\ ((newPos.x - pos.x) * 3) % 5 = 0
         /\ ((newPos.y - pos.y) * 3) % 5 = 0
         /\ ((newPos.z - pos.z) * 3) % 5 = 0
         /\ 1000 % deltaTime = 0

ComesIntoView(pos, newPos, homeTip) ==
    (pos = NoHand /\ newPos # NoHand)
        => newPos = MapHandToWorld(homeTip.x, homeTip.y)

-----------------------------------------------------------------------------
(* Vector arithmetic of the judge (THREE.Vector3).                         *)

Dot(a, b) == a.x * b.x + a.y * b.y + a.z * b.z
LengthSq(v) == Dot(v, v)
DistanceSq(a, b) ==
    (a.x - b.x) * (a.x - b.x) + (a.y - b.y) * (a.y - b.y)
        + (a.z - b.z) * (a.z - b.z)

(* Mutation of WithinRadius: a distance of exactly 0.8 is a hit too *)
WithinRadiusInclusive(handPos, notePos) ==
    DistanceSq(handPos, notePos) <= 80 * 80

(* handPos.distanceTo(notePos) < 0.8 *)
WithinRadius(handPos, notePos) == DistanceSq(handPos, notePos) < 80 * 80

(* Mutation of TooSlow: a speed of exactly 1.5 is too slow as well *)
TooSlowInclusive(handVel) == LengthSq(handVel) <= 150 * 150

(* handVel.length() < 1.5 *)
TooSlow(handVel) == LengthSq(handVel) < 150 * 150

(* vecB.copy(handVel).normalize().dot(requiredDir) < 0.3, for a unit       *)
(* requiredDir; normalize() leaves the zero vector zero, so its dot is 0.  *)
DotBelow(handVel, requiredDir) ==
    LET c == Dot(handVel, requiredDir) IN
    \/ LengthSq(handVel) = 0
    \/ c < 0
    \/ 100 * c * c < 9 * LengthSq(handVel)

GoodCut(note, handVel) ==
    IF note.cutDirection # "ANY"
    THEN ~ (DotBelow(handVel, DIRECTION_VECTORS[note.cutDirection])
              \/ TooSlow(handVel))
    ELSE ~ TooSlow(handVel)

(* currentZ = PLAYER_Z - (note.time - time) * NOTE_SPEED *)
CurrentZ(note, time) == PLAYER_Z - (note.time - time) * NOTE_SPEED

(* spawnAheadTime = Math.abs(SPAWN_Z - PLAYER_Z) / NOTE_SPEED *)
SpawnAheadTime ==
    (IF SPAWN_Z - PLAYER_Z < 0 THEN PLAYER_Z - SPAWN_Z ELSE SPAWN_Z - PLAYER_Z)
        \div NOTE_SPEED

NotePos(note, time) ==
    Vec(LANE_X_POSITIONS[note.lineIndex + 1],
        LAYER_Y_POSITIONS[note.lineLayer + 1],
        CurrentZ(note, time))

(* currentZ > PLAYER_Z - 1.5 && currentZ < PLAYER_Z + 1.0 *)
InCollisionWindow(z) == z > PLAYER_Z - 150 /\ z < PLAYER_Z + 100

-----------------------------------------------------------------------------
(* App.tsx: the score state and its batched updates.                       *)

(* One dispatched state update: the hook it belongs to, the kind of action *)
(* and the action's value.                                                 *)
Upd(hook, op, val) == [hook |-> hook, op |-> op, val |-> val]

(* handleNoteHit, the multiplier chosen inside the setCombo updater *)
MultiplierFor(newCombo) ==
    IF newCombo > 30 THEN 8
    ELSE IF newCombo > 20 THEN 4
    ELSE IF newCombo > 10 THEN 2
    ELSE 1

(* handleNoteHit: points = 100, +50 on a good cut *)
Points(goodCut) == IF goodCut THEN 100 + 50 ELSE 100

(* handleNoteHit: setHealth(h => Math.min(100, h + 2)) *)
HealthAfterHit(h) == IF h + 2 < 100 THEN h + 2 ELSE 100

(* Mutation of HealthAfterMiss: the floor at 0 is left out *)
HealthAfterMissNoFloor(h) == h - 15

(* handleNoteMiss: the setHealth updater, newHealth = h - 15, 0 if <= 0 *)
HealthAfterMiss(h) == IF h - 15 <= 0 THEN 0 ELSE h - 15

(* handleNoteMiss: the updater schedules endGame(false) when newHealth <= 0 *)
MissEndsGame(h) == h - 15 <= 0

(* handleNoteHit(note, goodCut), called with q queued.  setCombo gets an   *)
(* updater that calls setMultiplier: React runs an updater when it renders *)
(* the queue, except that an update dispatched while the component has     *)
(* nothing queued may be computed eagerly, at dispatch (eager); then the   *)
(* setMultiplier inside is an ordinary dispatch made before the others and *)
(* the combo update carries its value.  The score update multiplies by the *)
(* multiplier of the closure, which is the rendered one.                   *)
HandleNoteHit(q, goodCut, eager) ==
    LET comboUpdate ==
            IF eager /\ q = << >>
            THEN << Upd("multiplier", "set", MultiplierFor(combo + 1)),
                    Upd("combo", "set", combo + 1) >>
            ELSE << Upd("combo", "inc", 0) >>
    IN  q \o comboUpdate
          \o << Upd("score", "add", Points(goodCut) * multiplier),
                Upd("health", "hit", 0) >>

(* Mutation of HandleNoteMiss: a miss takes 50 points off the score *)
HandleNoteMissPenalty(q) ==
    q \o << Upd("combo", "set", 0),
            Upd("multiplier", "set", 1),
            Upd("score", "add", -50),
            Upd("health", "miss", 0) >>

(* Mutation of HandleNoteMiss: setCombo(0) is left out *)
HandleNoteMissKeepsCombo(q) ==
    q \o << Upd("multiplier", "set", 1),
            Upd("health", "miss", 0) >>

(* handleNoteMiss(note): setCombo(0); setMultiplier(1); setHealth(updater) *)
HandleNoteMiss(q) ==
    q \o << Upd("combo", "set", 0),
            Upd("multiplier", "set", 1),
            Upd("health", "miss", 0) >>

(* endGame(victory): setGameStatus; the audio is paused by the caller      *)
EndGame(q, victory) ==
    Append(q, Upd("status", "set", IF victory THEN "VICTORY" ELSE "GAME_OVER"))

(* One update applied by the render.  st.renderPhase is the last           *)
(* setMultiplier made by a setCombo updater that ran during this render:   *)
(* such an update joins the multiplier's queue behind every update that    *)
(* was dispatched before the render.                                       *)
ApplyUpdate(st, u) ==
    CASE u.hook = "combo" /\ u.op = "inc" ->
            [st EXCEPT !.combo = @ + 1,
                       !.renderPhase = << MultiplierFor(st.combo + 1) >>]
      [] u.hook = "combo" /\ u.op = "set" -> [st EXCEPT !.combo = u.val]
      [] u.hook = "multiplier" -> [st EXCEPT !.multiplier = u.val]
      [] u.hook = "score" /\ u.op = "add" -> [st EXCEPT !.score = @ + u.val]
      [] u.hook = "health" /\ u.op = "hit" ->
            [st EXCEPT !.health = HealthAfterHit(@)]
      [] u.hook = "health" /\ u.op = "miss" ->
            [st EXCEPT !.health = HealthAfterMiss(@),
                       !.timers = IF MissEndsGame(st.health) THEN @ + 1 ELSE @]
      [] u.hook = "status" -> [st EXCEPT !.status = u.val]

RECURSIVE ApplyUpdates(_, _)
ApplyUpdates(st, q) ==
    IF q = << >> THEN st ELSE ApplyUpdates(ApplyUpdate(st, Head(q)), Tail(q))

(* The state App renders from the committed state and the queue q.         *)
Rendered(q) ==
    LET st == ApplyUpdates([status |-> gameStatus, score |-> score,
                            combo |-> combo, multiplier |-> multiplier,
                            renderPhase |-> << >>, health |-> health,
                            timers |-> 0], q)
    IN  [st EXCEPT !.multiplier =
            IF st.renderPhase # << >> THEN st.renderPhase[1] ELSE @]

-----------------------------------------------------------------------------
(* GameScene: the frame loop.                                              *)

(* activeNotesRef.current.splice(i, 1) *)
Splice(seq, i) == SubSeq(seq, 1, i - 1) \o SubSeq(seq, i + 1, Len(seq))

(* 1. Spawn Notes: the while loop over nextNoteIndexRef.  r.active and     *)
(* r.next are activeNotesRef.current and nextNoteIndexRef.current.         *)
(* Mutation of DueToSpawn: a note is pushed only after the time it is due *)
DueToSpawnLate(i, time) == ChartNote(i).time - SpawnAheadTime < time

(* notesState[nextNoteIndexRef.current].time - spawnAheadTime <= time *)
DueToSpawn(i, time) == ChartNote(i).time - SpawnAheadTime <= time

(* Mutation of SpawnNotes: nextNoteIndexRef.current++ is left out, the     *)
(* note that is due is pushed and the cursor stays                         *)
SpawnNotesSameIndex(r, time) ==
    IF r.next < NumNotes /\ DueToSpawn(r.next + 1, time)
    THEN [active |-> Append(r.active, r.next + 1), next |-> r.next]
    ELSE r

RECURSIVE SpawnNotes(_, _)
SpawnNotes(r, time) ==
    IF r.next < NumNotes /\ DueToSpawn(r.next + 1, time)
    THEN SpawnNotes([active |-> Append(r.active, r.next + 1),
                     next |-> r.next + 1], time)
    ELSE r

(* The judge's working state while it walks the active notes: the notes'   *)
(* flags, the active list, the queue of state updates, and the history of  *)
(* the events emitted.                                                     *)

(* Mutation of RetireMissed: the missed note is neither flagged nor       *)
(* taken out of the active notes                                           *)
RetireMissedKeepsNote(js, i) == js

(* note.missed = true; ...; activeNotesRef.current.splice(i, 1) *)
RetireMissed(js, i) ==
    [js EXCEPT !.notes[js.active[i]].missed = TRUE,
               !.active = Splice(@, i)]

(* note.hit = true; ...; activeNotesRef.current.splice(i, 1) *)
RetireHit(js, i) ==
    [js EXCEPT !.notes[js.active[i]].hit = TRUE,
               !.active = Splice(@, i)]

(* onNoteMiss(note) *)
EmitMiss(js, n) ==
    [js EXCEPT !.q = HandleNoteMiss(@),
               !.ev[n] = @ + 1,
               !.gCombo = 0,
               !.last = "miss"]

(* handleHit(note, goodCut): onNoteHit(note, goodCut) *)
EmitHit(js, n, goodCut, eager) ==
    [js EXCEPT !.q = HandleNoteHit(@, goodCut, eager),
               !.ev[n] = @ + 1,
               !.gCombo = @ + 1,
               !.gScore = @ + Points(goodCut) * MultiplierFor(js.gCombo + 1),
               !.last = "hit"]

(* Mutation of HandPos: the hand of the note's type, or the other hand     *)
(* when that one is not tracked                                            *)
HandPosEither(note, h) ==
    IF note.type = "left"
    THEN (IF h.left # NoHand THEN h.left ELSE h.right)
    ELSE (IF h.right # NoHand THEN h.right ELSE h.left)

(* const handPos = note.type === 'left' ? hands.left : hands.right *)
HandPos(note, h) == IF note.type = "left" THEN h.left ELSE h.right

(* const handVel = note.type === 'left' ? hands.leftVelocity : ... *)
HandVel(note, h) ==
    IF note.type = "left" THEN h.leftVelocity ELSE h.rightVelocity

(* Mutation of Collides: the hand is tested against the note's slot at the *)
(* player's depth, whatever the depth of the note                          *)
CollidesAtSlot(note, time, h) ==
    /\ HandPos(note, h) # NoHand
    /\ WithinRadius(HandPos(note, h),
                    Vec(LANE_X_POSITIONS[note.lineIndex + 1],
                        LAYER_Y_POSITIONS[note.lineLayer + 1], PLAYER_Z))

(* The collision test of one pending note at depth z *)
Collides(note, time, h) ==
    /\ InCollisionWindow(CurrentZ(note, time))
    /\ HandPos(note, h) # NoHand
    /\ WithinRadius(HandPos(note, h), NotePos(note, time))

(* Mutation of PassedPlayer: a note is missed one step of 0.5 later *)
PassedPlayerLate(z) == z > MISS_Z + NOTE_SPEED

(* Miss check (passed player): currentZ > MISS_Z *)
PassedPlayer(z) == z > MISS_Z

(* 2. Update & Collide Notes: for (i = length - 1; i >= 0; i--), here from *)
(* index i down to 1.                                                      *)
RECURSIVE JudgeFrom(_, _, _, _, _)
JudgeFrom(i, js, time, h, eager) ==
    IF i = 0 THEN js
    ELSE LET n == js.active[i]
             note == ChartNote(n)
         IN  IF js.notes[n].hit \/ js.notes[n].missed
             THEN JudgeFrom(i - 1, js, time, h, eager)
             ELSE IF PassedPlayer(CurrentZ(note, time))
             THEN JudgeFrom(i - 1, RetireMissed(EmitMiss(js, n), i),
                            time, h, eager)
             ELSE IF Collides(note, time, h)
             THEN JudgeFrom(i - 1,
                            RetireHit(EmitHit(js, n,
                                              GoodCut(note, HandVel(note, h)),
                                              eager), i),
                            time, h, eager)
             ELSE JudgeFrom(i - 1, js, time, h, eager)

(* The audio clock read when it has advanced by at most maxStep since it   *)
(* was last read: the clock runs while the audio plays.                    *)
ClockReadings(maxStep) ==
    IF audioPlaying
    THEN { t \in audioTime .. audioTime + maxStep : t <= SongLength }
    ELSE { audioTime }

(* audioRef.current.ended *)
Ended(time) == time = SongLength

(* Mutation of Gated: the frame loop runs whatever the status is *)
GatedNever == FALSE

(* if (gameStatus !== GameStatus.PLAYING || !audioRef.current) return; *)
Gated == gameStatus # "PLAYING"

(* The useFrame callback of GameScene, which is mounted once the status    *)
(* has left LOADING.  time is audioRef.current.currentTime.                *)
Tick(time, eager) ==
    /\ gameStatus # "LOADING"
    /\ IF Gated
       THEN /\ time = audioTime
            /\ ~ eager
            /\ UNCHANGED vars
       ELSE /\ Len(pending) <= MaxPending
            /\ time \in ClockReadings(MaxFrameStep)
            /\ audioTime' = time
            /\ IF Ended(time)
               THEN \* onSongEnd(): endGame(true)
                    /\ ~ eager
                    /\ pending' = EndGame(pending, TRUE)
                    /\ audioPlaying' = FALSE
                    /\ UNCHANGED << notes, activeNotes, nextNoteIndex,
                                    evCount, gCombo, gScore, lastEvent >>
               ELSE LET sp == SpawnNotes([active |-> activeNotes,
                                          next |-> nextNoteIndex], time)
                        js == JudgeFrom(Len(sp.active),
                                        [notes |-> notes, active |-> sp.active,
                                         q |-> pending, ev |-> evCount,
                                         gCombo |-> gCombo, gScore |-> gScore,
                                         last |-> lastEvent],
                                        time, hands, eager)
                    IN  /\ nextNoteIndex' = sp.next
                        /\ notes' = js.notes
                        /\ activeNotes' = js.active
                        /\ pending' = js.q
                        /\ evCount' = js.ev
                        /\ gCombo' = js.gCombo
                        /\ gScore' = js.gScore
                        /\ lastEvent' = js.last
                        /\ UNCHANGED audioPlaying
            /\ fresh' = FALSE
            /\ UNCHANGED << gameStatus, score, combo, multiplier, health,
                            endTimers, isCameraReady, error, playPromises, hands,
                            defeatSignalled, lastSeen >>

-----------------------------------------------------------------------------
(* App: rendering, timers, commands of the player, the audio element.      *)

(* React renders App: the queued updates are applied.  A miss update that  *)
(* brings health to 0 schedules the deferred endGame(false).               *)
Render ==
    /\ pending # << >>
    /\ LET st == Rendered(pending)
       IN  /\ gameStatus' = st.status
           /\ score' = st.score
           /\ combo' = st.combo
           /\ multiplier' = st.multiplier
           /\ health' = st.health
           /\ endTimers' = endTimers + st.timers
           /\ defeatSignalled' = (defeatSignalled \/ st.timers > 0)
    /\ pending' = << >>
    /\ UNCHANGED << isCameraReady, error, playPromises, audioTime, audioPlaying,
                    notes, activeNotes, nextNoteIndex, hands, evCount,
                    gCombo, gScore, lastEvent, fresh, lastSeen >>

(* The callback of setTimeout(() => endGame(false), 0).  endGame pauses   *)
(* the audio, at the time the clock has reached by then.                  *)
TimerFire(time) ==
    /\ endTimers > 0
    /\ time \in ClockReadings(MaxTimerDelay)
    /\ endTimers' = endTimers - 1
    /\ pending' = EndGame(pending, FALSE)
    /\ audioTime' = time
    /\ audioPlaying' = FALSE
    /\ UNCHANGED << gameStatus, score, combo, multiplier, health,
                    isCameraReady, error, playPromises, notes,
                    activeNotes, nextNoteIndex, hands, evCount, gCombo,
                    gScore, lastEvent, defeatSignalled, fresh, lastSeen >>

(* The player acts on what is on screen: a click comes when React has      *)
(* rendered every queued update and no zero-delay timer is due.            *)
PlayerCanClick == pending = << >> /\ endTimers = 0

(* The flags of the notes generateDemoChart returns: no note is hit or    *)
(* missed.                                                                 *)
FreshChart == [n \in NoteIds |-> [hit |-> FALSE, missed |-> FALSE]]

(* Mutation of ResetChart: n.missed = false is left out *)
ResetChartKeepsMissed(chart) ==
    [n \in DOMAIN chart |-> [chart[n] EXCEPT !.hit = FALSE]]

(* DEMO_CHART.forEach(n => { n.hit = false; n.missed = false; }) *)
ResetChart(chart) ==
    [n \in DOMAIN chart |-> [hit |-> FALSE, missed |-> FALSE]]

(* startGame up to `await audioRef.current.play()`: the START GAME button  *)
(* is on screen in IDLE.  The four setters are flushed with the click.     *)
StartClick ==
    /\ gameStatus = "IDLE"
    /\ PlayerCanClick
    /\ playPromises < MaxStartClicks
    /\ IF ~ isCameraReady
       THEN UNCHANGED vars
       ELSE /\ score' = 0
            /\ combo' = 0
            /\ multiplier' = 1
            /\ health' = 100
            /\ notes' = ResetChart(notes)
            /\ audioTime' = 0
            /\ playPromises' = playPromises + 1
            /\ evCount' = [n \in NoteIds |-> 0]
            /\ gCombo' = 0
            /\ gScore' = 0
            /\ lastEvent' = "none"
            /\ defeatSignalled' = FALSE
            /\ fresh' = TRUE
            /\ UNCHANGED << gameStatus, pending, endTimers, isCameraReady, error,
                            audioPlaying, activeNotes, nextNoteIndex, hands,
                            lastSeen >>

RECURSIVE Repeat(_, _)
Repeat(u, k) == IF k = 0 THEN << >> ELSE << u >> \o Repeat(u, k - 1)

(* audio.play() is fulfilled: the audio element settles all its pending    *)
(* play promises together, and every suspended startGame goes on to        *)
(* setGameStatus(GameStatus.PLAYING).                                      *)
PlayResolved ==
    /\ playPromises > 0
    /\ playPromises' = 0
    /\ audioPlaying' = TRUE
    /\ pending' = pending \o Repeat(Upd("status", "set", "PLAYING"),
                                    playPromises)
    /\ UNCHANGED << gameStatus, score, combo, multiplier, health, endTimers,
                    isCameraReady, error, audioTime, notes, activeNotes,
                    nextNoteIndex, hands, evCount, gCombo, gScore, lastEvent,
                    defeatSignalled, fresh, lastSeen >>

(* Mutation of PlayRejected: the suspended startGame calls go on to        *)
(* setGameStatus(GameStatus.PLAYING) although play() was rejected          *)
PlayRejectedStarts ==
    /\ playPromises > 0
    /\ playPromises' = 0
    /\ pending' = pending \o Repeat(Upd("status", "set", "PLAYING"),
                                    playPromises)
    /\ UNCHANGED << gameStatus, score, combo, multiplier, health, endTimers,
                    isCameraReady, error, audioTime, audioPlaying, notes,
                    activeNotes, nextNoteIndex, hands, evCount, gCombo,
                    gScore, lastEvent, defeatSignalled, fresh, lastSeen >>

(* audio.play() is rejected: the catch branch of startGame (an alert)      *)
PlayRejected ==
    /\ playPromises > 0
    /\ playPromises' = 0
    /\ UNCHANGED << gameStatus, score, combo, multiplier, health, pending,
                    endTimers, isCameraReady, error, audioTime, audioPlaying, notes,
                    activeNotes, nextNoteIndex, hands, evCount, gCombo,
                    gScore, lastEvent, defeatSignalled, fresh, lastSeen >>

(* The Play Again button: onClick={() => setGameStatus(GameStatus.IDLE)}   *)
PlayAgainClick ==
    /\ gameStatus \in {"GAME_OVER", "VICTORY"}
    /\ PlayerCanClick
    /\ gameStatus' = "IDLE"
    /\ defeatSignalled' = FALSE
    /\ UNCHANGED << score, combo, multiplier, health, pending, endTimers,
                    isCameraReady, error, playPromises, audioTime, audioPlaying,
                    notes, activeNotes, nextNoteIndex, hands, evCount, gCombo,
                    gScore, lastEvent, fresh, lastSeen >>

(* useMediaPipe: useState<string | null>(null) *)
NoError == "null"

(* The messages of setError: the catch blocks of setupMediaPipe and of     *)
(* startCamera                                                             *)
InitErrors == { "Failed to load hand tracking", "Could not access camera." }

(* useMediaPipe: setupMediaPipe or startCamera throws; setError(message).  *)
(* video.onloadeddata is then never set.                                   *)
CameraFailed(message) ==
    /\ ~ isCameraReady
    /\ error = NoError
    /\ error' = message
    /\ UNCHANGED << gameStatus, score, combo, multiplier, health, pending,
                    endTimers, isCameraReady, playPromises, audioTime,
                    audioPlaying, notes, activeNotes, nextNoteIndex, hands,
                    evCount, gCombo, gScore, lastEvent, defeatSignalled,
                    fresh, lastSeen >>

(* useMediaPipe: video.onloadeddata, setIsCameraReady(true) *)
CameraReady ==
    /\ ~ isCameraReady
    /\ error = NoError
    /\ isCameraReady' = TRUE
    /\ UNCHANGED << error, gameStatus, score, combo, multiplier, health, pending,
                    endTimers, playPromises, audioTime, audioPlaying, notes,
                    activeNotes, nextNoteIndex, hands, evCount, gCombo,
                    gScore, lastEvent, defeatSignalled, fresh, lastSeen >>

(* Mutation of LoadingEffect: the status leaves LOADING whether the camera *)
(* is ready or not                                                         *)
LoadingEffectUnguarded ==
    /\ gameStatus = "LOADING"
    /\ gameStatus' = "IDLE"
    /\ UNCHANGED << score, combo, multiplier, health, pending, endTimers,
                    isCameraReady, error, playPromises, audioTime,
                    audioPlaying, notes, activeNotes, nextNoteIndex, hands,
                    evCount, gCombo, gScore, lastEvent, defeatSignalled,
                    fresh, lastSeen >>

(* useEffect: LOADING and isCameraReady -> setGameStatus(IDLE) *)
LoadingEffect ==
    /\ gameStatus = "LOADING"
    /\ isCameraReady
    /\ gameStatus' = "IDLE"
    /\ UNCHANGED << score, combo, multiplier, health, pending, endTimers,
                    isCameraReady, error, playPromises, audioTime, audioPlaying,
                    notes, activeNotes, nextNoteIndex, hands, evCount, gCombo,
                    gScore, lastEvent, defeatSignalled, fresh, lastSeen >>

(* processResults(results), called deltaTime after the previous call: the  *)
(* new hand state.  The other fields of handPositionsRef are left out:     *)
(* lastTimestamp is read only to form deltaTime, lastLeft and lastRight    *)
(* are written and never read.                                             *)
ProcessResults(landmarks, deltaTime) ==
    LET new == NewPositions(landmarks,
                            [newLeft |-> NoHand, newRight |-> NoHand])
        l == UpdateHand(hands.left, hands.leftVelocity, new.newLeft, deltaTime)
        r == UpdateHand(hands.right, hands.rightVelocity,
                        new.newRight, deltaTime)
    IN  HandFrame(l.pos, r.pos, l.vel, r.vel)

(* The detections the model follows (see Exact and ComesIntoView) *)
Followed(landmarks, deltaTime) ==
    LET new == NewPositions(landmarks,
                            [newLeft |-> NoHand, newRight |-> NoHand])
    IN  /\ Exact(hands.left, new.newLeft, deltaTime)
        /\ Exact(hands.right, new.newRight, deltaTime)
        /\ ComesIntoView(hands.left, new.newLeft, LeftHomeTip)

(* The history of the detections before the first one *)
NeverSeen ==
    [sides |-> {}, left |-> NoHand, right |-> NoHand,
     leftAge |-> 0, rightAge |-> 0, caught |-> "none", offered |-> {},
     deltaTime |-> 0, landmarks |-> << >>]

(* The sides of the hands that h holds a position of *)
TrackedSides(h) ==
    (IF h.left # NoHand THEN {"Left"} ELSE {})
        \cup (IF h.right # NoHand THEN {"Right"} ELSE {})

(* The sides results.handedness classifies the landmarks as *)
Sides(landmarks) ==
    { landmarks[i].categoryName : i \in 1 .. Len(landmarks) }

(* Mutation of DetectorCycle: the hand state is handed on after the Left   *)
(* block of processResults, before the Right block has run                 *)
DetectorCycleTorn(landmarks, deltaTime) ==
    /\ isCameraReady
    /\ Followed(landmarks, deltaTime)
    /\ hands' = [ProcessResults(landmarks, deltaTime)
                    EXCEPT !.right = hands.right,
                           !.rightVelocity = hands.rightVelocity]
    /\ lastSeen' = [lastSeen EXCEPT !.sides = Sides(landmarks),
                                    !.caught = "none", !.offered = {},
                                    !.deltaTime = deltaTime]
    /\ UNCHANGED << gameStatus, score, combo, multiplier, health, pending,
                    endTimers, isCameraReady, error, playPromises, audioTime,
                    audioPlaying, notes, activeNotes, nextNoteIndex, evCount,
                    gCombo, gScore, lastEvent, defeatSignalled, fresh >>

(* predictWebcam, once the video has data: one detection and              *)
(* processResults(results), deltaTime after the previous one.              *)
DetectorCycle(landmarks, deltaTime) ==
    /\ isCameraReady
    /\ Followed(landmarks, deltaTime)
    /\ hands' = ProcessResults(landmarks, deltaTime)
    /\ lastSeen' = [lastSeen EXCEPT !.sides = Sides(landmarks),
                                    !.caught = "none", !.offered = {},
                                    !.deltaTime = deltaTime]
    /\ UNCHANGED << gameStatus, score, combo, multiplier, health, pending,
                    endTimers, isCameraReady, error, playPromises, audioTime,
                    audioPlaying, notes, activeNotes, nextNoteIndex, evCount,
                    gCombo, gScore, lastEvent, defeatSignalled, fresh >>

(* The time since a hand was last given a position, after a cycle that     *)
(* came deltaTime after the previous one and gave it newPos.               *)
AgeAfter(seenPos, age, newPos, deltaTime) ==
    IF newPos # NoHand \/ seenPos = NoHand THEN 0 ELSE age + deltaTime

(* The same cycle, with the history of the positions given to each hand.   *)
ObservedDetectorCycle(landmarks, deltaTime) ==
    /\ isCameraReady
    /\ Followed(landmarks, deltaTime)
    /\ hands' = ProcessResults(landmarks, deltaTime)
    /\ LET new == NewPositions(landmarks,
                               [newLeft |-> NoHand, newRight |-> NoHand])
           leftAge == AgeAfter(lastSeen.left, lastSeen.leftAge,
                               new.newLeft, deltaTime)
           rightAge == AgeAfter(lastSeen.right, lastSeen.rightAge,
                                new.newRight, deltaTime)
       IN  /\ leftAge <= MaxGap
           /\ rightAge <= MaxGap
           /\ lastSeen' = [sides |-> Sides(landmarks),
                           left |-> IF hands'.left # NoHand
                                    THEN hands'.left ELSE lastSeen.left,
                           right |-> IF hands'.right # NoHand
                                     THEN hands'.right ELSE lastSeen.right,
                           leftAge |-> leftAge,
                           rightAge |-> rightAge,
                           caught |-> "none",
                           deltaTime |-> deltaTime,
                           landmarks |-> lastSeen.landmarks,
                           offered |-> {}]
    /\ UNCHANGED << gameStatus, score, combo, multiplier, health, pending,
                    endTimers, isCameraReady, error, playPromises, audioTime,
                    audioPlaying, notes, activeNotes, nextNoteIndex, evCount,
                    gCombo, gScore, lastEvent, defeatSignalled, fresh >>

(* predictWebcam when landmarkerRef.current.detectForVideo throws: the     *)
(* catch block logs a warning, processResults is not called and the next   *)
(* cycle is requested.                                                     *)
DetectorFailure ==
    /\ isCameraReady
    /\ lastSeen' = [lastSeen EXCEPT !.caught = "detectForVideo",
                                    !.offered = {}]
    /\ UNCHANGED << gameStatus, score, combo, multiplier, health, pending,
                    endTimers, isCameraReady, error, playPromises, audioTime,
                    audioPlaying, notes, activeNotes, nextNoteIndex, hands,
                    evCount, gCombo, gScore, lastEvent, defeatSignalled,
                    fresh >>

(* Detections that hold two landmarks classified as the same side (a       *)
(* detector artifact), in either order                                     *)
DuplicateDetectionSets ==
    { << LeftHomeTip, LeftLowTip >>, << LeftLowTip, LeftHomeTip >>,
      << LeftHighTip, LeftHomeTip >>, << RightHomeTip, RightEdgeTip >>,
      << RightEdgeTip, RightHomeTip >> }

(* The same cycle as DetectorCycle, with the detection kept in the history *)
RecordedDetectorCycle(landmarks, deltaTime) ==
    /\ isCameraReady
    /\ Followed(landmarks, deltaTime)
    /\ hands' = ProcessResults(landmarks, deltaTime)
    /\ lastSeen' = [lastSeen EXCEPT !.sides = Sides(landmarks),
                                    !.caught = "none", !.offered = {},
                                    !.deltaTime = deltaTime,
                                    !.landmarks = landmarks]
    /\ UNCHANGED << gameStatus, score, combo, multiplier, health, pending,
                    endTimers, isCameraReady, error, playPromises, audioTime,
                    audioPlaying, notes, activeNotes, nextNoteIndex, evCount,
                    gCombo, gScore, lastEvent, defeatSignalled, fresh >>

(* An entry of results.landmarks whose results.handedness[i] holds no      *)
(* classification: results.handedness[i][0] is undefined.                  *)
NoClassification == "undefined"
UnclassifiedTip == Landmark(NoClassification, 290, 35)

(* Detections with such an entry, alone, before or after a classified one  *)
MalformedDetectionSets ==
    { << UnclassifiedTip >>, << UnclassifiedTip, RightHomeTip >>,
      << RightHomeTip, UnclassifiedTip >>, << LeftHomeTip, UnclassifiedTip >> }

(* classification.categoryName throws a TypeError in the loop of           *)
(* processResults                                                          *)
Raises(landmarks) ==
    \E i \in 1 .. Len(landmarks) : landmarks[i].categoryName = NoClassification

(* predictWebcam with a detection that makes processResults throw: the     *)
(* loop over results.landmarks is left before the `Update State` part, so  *)
(* no hand is written, and the catch block of predictWebcam logs a         *)
(* warning.                                                                *)
MalformedCycle(landmarks) ==
    /\ isCameraReady
    /\ Raises(landmarks)
    /\ lastSeen' = [lastSeen EXCEPT
                        !.caught = "processResults",
                        !.offered = Sides(landmarks) \ {NoClassification}]
    /\ UNCHANGED << gameStatus, score, combo, multiplier, health, pending,
                    endTimers, isCameraReady, error, playPromises, audioTime,
                    audioPlaying, notes, activeNotes, nextNoteIndex, hands,
                    evCount, gCombo, gScore, lastEvent, defeatSignalled,
                    fresh >>

-----------------------------------------------------------------------------

Init ==
    /\ gameStatus = "LOADING"
    /\ score = 0
    /\ combo = 0
    /\ multiplier = 1
    /\ health = 100
    /\ pending = << >>
    /\ endTimers = 0
    /\ isCameraReady = FALSE
    /\ error = NoError
    /\ playPromises = 0
    /\ audioTime = 0
    /\ audioPlaying = FALSE
    /\ notes = FreshChart
    /\ activeNotes = << >>
    /\ nextNoteIndex = 0
    /\ hands = HandFrame(NoHand, NoHand, ZeroVel, ZeroVel)
    /\ evCount = [n \in NoteIds |-> 0]
    /\ gCombo = 0
    /\ gScore = 0
    /\ lastEvent = "none"
    /\ defeatSignalled = FALSE
    /\ fresh = FALSE
    /\ lastSeen = NeverSeen

Next ==
    \/ \E time \in 0 .. SongLength, eager \in BOOLEAN : Tick(time, eager)
    \/ Render
    \/ \E time \in 0 .. SongLength : TimerFire(time)
    \/ StartClick
    \/ PlayResolved
    \/ PlayRejected
    \/ PlayAgainClick
    \/ CameraReady
    \/ \E message \in InitErrors : CameraFailed(message)
    \/ LoadingEffect
    \/ \E landmarks \in GameDetectionSets, deltaTime \in GameDeltaTimes :
          DetectorCycle(landmarks, deltaTime)

Spec == Init /\ [][Next]_vars

(* The game played with no hand ever tracked: the detector reports        *)
(* nothing, handPositionsRef keeps its initial value.                      *)
NoHandsNext ==
    \/ \E time \in 0 .. SongLength, eager \in BOOLEAN : Tick(time, eager)
    \/ Render
    \/ \E time \in 0 .. SongLength : TimerFire(time)
    \/ StartClick
    \/ PlayResolved
    \/ PlayRejected
    \/ PlayAgainClick
    \/ CameraReady
    \/ LoadingEffect

NoHandsSpec == Init /\ [][NoHandsNext]_vars

(* The judge alone: a session that has just started (the state StartClick, *)
(* PlayResolved and Render lead to) with the hands held where the detector *)
(* has put them, for a choice of positions mapHandToWorld can give and of  *)
(* velocities along the surface z = -y / 5 these positions lie on.         *)
LeftHome == MapHandToWorld(LeftHomeTip.x, LeftHomeTip.y)
LeftInside == MapHandToWorld(LeftHomeTip.x - 78, LeftHomeTip.y)
LeftOutside == MapHandToWorld(LeftHomeTip.x - 79, LeftHomeTip.y)
RightHome == MapHandToWorld(RightHomeTip.x, RightHomeTip.y)
RightEdge == MapHandToWorld(RightEdgeTip.x, RightEdgeTip.y)

JudgeVelocities ==
    { ZeroVel, Vec(0, -300, 60), Vec(0, -100, 20), Vec(0, 300, -60),
      Vec(150, 0, 0), Vec(145, 0, 0), Vec(315, -100, 20), Vec(320, -100, 20) }

JudgeFrames ==
    { HandFrame(LeftHome, NoHand, v, ZeroVel) : v \in JudgeVelocities }
        \cup { HandFrame(l, r, Vec(0, -300, 60), v) :
                  l \in {LeftInside, LeftOutside}, r \in {RightHome, RightEdge},
                  v \in {Vec(150, 0, 0), Vec(145, 0, 0)} }
        \cup { HandFrame(NoHand, r, ZeroVel, ZeroVel) :
                  r \in {NoHand, RightHome, RightEdge} }
        \cup { HandFrame(NoHand, LeftHome, ZeroVel, ZeroVel),
               HandFrame(RightHome, NoHand, ZeroVel, ZeroVel) }

JudgeInit ==
    /\ gameStatus = "PLAYING"
    /\ score = 0
    /\ combo = 0
    /\ multiplier = 1
    /\ health = 100
    /\ pending = << >>
    /\ endTimers = 0
    /\ isCameraReady = TRUE
    /\ error = NoError
    /\ playPromises = 0
    /\ audioTime = 0
    /\ audioPlaying = TRUE
    /\ notes = FreshChart
    /\ activeNotes = << >>
    /\ nextNoteIndex = 0
    /\ hands \in JudgeFrames
    /\ evCount = [n \in NoteIds |-> 0]
    /\ gCombo = 0
    /\ gScore = 0
    /\ lastEvent = "none"
    /\ defeatSignalled = FALSE
    /\ fresh = TRUE
    /\ lastSeen = [NeverSeen EXCEPT !.sides = TrackedSides(hands)]

JudgeNext ==
    \/ \E time \in 0 .. SongLength, eager \in BOOLEAN : Tick(time, eager)
    \/ Render
    \/ \E time \in 0 .. SongLength : TimerFire(time)

JudgeSpec == JudgeInit /\ [][JudgeNext]_vars

(* The hand tracking hook alone, fed every detection of DetectionSets.     *)
HandsNext ==
    \/ CameraReady
    \/ LoadingEffect
    \/ \E landmarks \in DetectionSets, deltaTime \in DeltaTimes :
          ObservedDetectorCycle(landmarks, deltaTime)

HandsSpec == Init /\ [][HandsNext]_vars

(* The hook with a detector that may throw and detections that may hold an *)
(* entry without classification.                                           *)
FaultyNext ==
    \/ CameraReady
    \/ LoadingEffect
    \/ \E landmarks \in DetectionSets, deltaTime \in DeltaTimes :
          DetectorCycle(landmarks, deltaTime)
    \/ DetectorFailure
    \/ \E landmarks \in MalformedDetectionSets : MalformedCycle(landmarks)

FaultySpec == Init /\ [][FaultyNext]_vars

(* The hook fed detections that hold one side twice, besides the others.   *)
DuplicatesNext ==
    \/ CameraReady
    \/ LoadingEffect
    \/ \E landmarks \in DetectionSets \cup DuplicateDetectionSets,
          deltaTime \in DeltaTimes :
          RecordedDetectorCycle(landmarks, deltaTime)

DuplicatesSpec == Init /\ [][DuplicatesNext]_vars

-----------------------------------------------------------------------------
(* Properties.                                                             *)

Resolved(n) == notes[n].hit \/ notes[n].missed

(* A start command is the step of startGame that resets the chart.         *)
StartStep == playPromises' = playPromises + 1

(* C1: within one session every note's outcome changes at most once: it is *)
(* never both hit and missed, it has an outcome exactly when one event was *)
(* emitted for it, no note gets a second event, and an outcome once set is *)
(* kept (neither dropped nor exchanged) until the next start command.      *)
C1_OutcomeState ==
    \A n \in NoteIds :
        /\ ~ (notes[n].hit /\ notes[n].missed)
        /\ evCount[n] <= 1
        /\ (evCount[n] = 1) <=> Resolved(n)

C1_OutcomeStep ==
    StartStep \/ \A n \in NoteIds :
                    /\ notes[n].hit => notes'[n].hit
                    /\ notes[n].missed => notes'[n].missed

C1_OutcomeOnce == [] C1_OutcomeState /\ [][C1_OutcomeStep]_vars

(* C1 witness: in a running session one note has been hit and another one  *)
(* missed, and the judge has still notes to walk over.                     *)
C1_Witness ==
    /\ gameStatus = "PLAYING"
    /\ \E n, m \in NoteIds : notes[n].hit /\ notes[m].missed
    /\ activeNotes # << >>

(* C2: health is in [0,100] in every reachable state.                      *)
C2_HealthInRange == health \in 0 .. 100

(* C2 witness: several misses of one batch were applied at the floor: the  *)
(* health is 0 and more than one of them asked for the end of the game.    *)
C2_Witness == health = 0 /\ endTimers >= 2

(* C3: every Hit adds (100, or 150 for a good cut) times the multiplier of *)
(* the combo as incremented by that hit: once every update is rendered the *)
(* score is the sum of these amounts.                                      *)
C3_ScoreUsesNewMultiplier == pending = << >> => score = gScore

(* C4: the multiplier is the step function of the combo in every state.    *)
C4_MultiplierIsStepOfCombo == multiplier = MultiplierFor(combo)

(* C5: once a Missed event is applied (it is the last event emitted and    *)
(* nothing is left to render) combo is 0 and multiplier is 1.              *)
C5_MissResets ==
    (pending = << >> /\ lastEvent = "miss") => (combo = 0 /\ multiplier = 1)

(* C6: combo is the number of Hit events since the last Missed event or    *)
(* start command: the combo React renders from the queued updates is that  *)
(* number, and so is combo itself whenever nothing is left to render.      *)
C6_ComboCountsHits ==
    /\ Rendered(pending).combo = gCombo
    /\ pending = << >> => combo = gCombo

(* C6 witness: hits, a miss and a hit again have been applied.             *)
C6_Witness ==
    /\ pending = << >>
    /\ combo > 0
    /\ lastEvent = "hit"
    /\ \E m \in NoteIds : notes[m].missed

(* C7: once a miss has brought health to 0, no later step changes score,   *)
(* combo, multiplier, health or a note's outcome until the next start.     *)
C7_NothingAfterDefeat ==
    [][(defeatSignalled /\ defeatSignalled')
          => UNCHANGED << score, combo, multiplier, health, notes >>]_vars

(* C8: a defeat that was signalled ends in GAME_OVER: when the deferred    *)
(* callbacks have run and everything is rendered the status is GAME_OVER,  *)
(* until the player asks to play again.                                    *)
C8_DefeatEndsInGameOver ==
    (defeatSignalled /\ endTimers = 0 /\ pending = << >>)
        => gameStatus = "GAME_OVER"

(* C9: the status changes only along the edges of the lifecycle.           *)
LifecycleEdges ==
    { << "LOADING", "IDLE" >>, << "IDLE", "PLAYING" >>,
      << "PLAYING", "GAME_OVER" >>, << "PLAYING", "VICTORY" >>,
      << "GAME_OVER", "IDLE" >>, << "VICTORY", "IDLE" >> }

C9_OnlyLifecycleEdges ==
    [][gameStatus' # gameStatus
          => << gameStatus, gameStatus' >> \in LifecycleEdges]_vars

(* C10: VICTORY is entered only from PLAYING, and never in a session where *)
(* the defeat has been signalled.                                          *)
C10_NoVictoryAfterDefeat ==
    [][(gameStatus' = "VICTORY" /\ gameStatus # "VICTORY")
          => (gameStatus = "PLAYING" /\ ~ defeatSignalled)]_vars

(* C11: while the status is not PLAYING no frame admits a note, changes a  *)
(* note's outcome, emits an event or changes score, combo, multiplier or   *)
(* health: these change only by a start command, and no update of the      *)
(* score state is queued.                                                  *)
C11_QueueOutsidePlaying ==
    gameStatus # "PLAYING"
        => \A i \in 1 .. Len(pending) : pending[i].hook = "status"

C11_StepOutsidePlaying ==
    gameStatus # "PLAYING"
        => \/ StartStep
           \/ UNCHANGED << notes, activeNotes, nextNoteIndex, evCount,
                           lastEvent, gCombo, gScore, score, combo,
                           multiplier, health >>

C11_NoTickOutsidePlaying ==
    [] C11_QueueOutsidePlaying /\ [][C11_StepOutsidePlaying]_vars

(* C11 witness: the game is over, the frame loop still runs, and an active *)
(* note without outcome is where the loop would miss it or hit it.         *)
C11_Witness ==
    /\ gameStatus \in {"IDLE", "GAME_OVER", "VICTORY"}
    /\ \E i \in 1 .. Len(activeNotes) :
          /\ ~ Resolved(activeNotes[i])
          /\ \/ CurrentZ(ChartNote(activeNotes[i]), audioTime) > MISS_Z
             \/ Collides(ChartNote(activeNotes[i]), audioTime, hands)

(* C12: from a start command until the first frame of the session that it  *)
(* starts, score is 0, combo 0, multiplier 1, health 100 and no note has   *)
(* an outcome.                                                             *)
C12_StartResets ==
    fresh => /\ score = 0
             /\ combo = 0
             /\ multiplier = 1
             /\ health = 100
             /\ \A n \in NoteIds : ~ Resolved(n)

(* C12 witness: the status has become PLAYING after a restart (the frame   *)
(* loop had admitted notes in an earlier session) and no frame has run.    *)
C12_Witness ==
    /\ fresh
    /\ gameStatus = "PLAYING"
    /\ nextNoteIndex > 0

(* C13: in every session, also one started after a restart, admission      *)
(* starts from the first note: after a frame of the session has run at     *)
(* time audioTime, every note with time - spawnAheadTime <= audioTime is   *)
(* among the active notes or has got its outcome.                          *)
Admitted(n) == \E i \in 1 .. Len(activeNotes) : activeNotes[i] = n

C13_RestartAdmitsFromFirst ==
    (gameStatus = "PLAYING" /\ audioPlaying /\ ~ fresh)
        => \A n \in NoteIds :
              ChartNote(n).time - SpawnAheadTime <= audioTime
                  => (Admitted(n) \/ Resolved(n))

(* C14: an active note without outcome that is more than MISS_Z behind the *)
(* player when a frame judges it is missed by that frame, whatever the     *)
(* hands do: no frame leaves such a note active without outcome, and no    *)
(* note is hit at a depth beyond MISS_Z.                                   *)
AfterFrame == gameStatus = "PLAYING" /\ audioPlaying /\ ~ fresh

C14_NoLateNoteLeft ==
    AfterFrame
        => \A i \in 1 .. Len(activeNotes) :
              ~ Resolved(activeNotes[i])
                  => CurrentZ(ChartNote(activeNotes[i]), audioTime) <= MISS_Z

C14_NoLateHit ==
    \A n \in NoteIds :
        (~ notes[n].hit /\ notes'[n].hit)
            => CurrentZ(ChartNote(n), audioTime') <= MISS_Z

C15_HitStep ==
    \A n \in NoteIds :
        LET note == ChartNote(n)
            handPos == HandPos(note, hands)
        IN  /\ (~ notes[n].hit /\ notes'[n].hit)
                  => /\ handPos # NoHand
                     /\ DistanceSq(handPos, NotePos(note, audioTime')) < 80 * 80
            /\ (/\ ~ Resolved(n)
                /\ handPos # NoHand
                /\ DistanceSq(handPos, NotePos(note, audioTime')) = 80 * 80)
                  => notes'[n] = notes[n]

C15_HitOnlyWithinRadius == [][C15_HitStep]_vars

(* C15 witness: a frame has judged an active note in the collision window *)
(* whose hand is tracked exactly 0.8 away, and the note has no outcome.    *)
C15_Witness ==
    /\ AfterFrame
    /\ \E i \in 1 .. Len(activeNotes) :
          LET note == ChartNote(activeNotes[i])
          IN  /\ ~ Resolved(activeNotes[i])
              /\ InCollisionWindow(CurrentZ(note, audioTime))
              /\ HandPos(note, hands) # NoHand
              /\ DistanceSq(HandPos(note, hands), NotePos(note, audioTime))
                    = 80 * 80

(* C16: every note a frame finds within the radius is hit, not missed, and *)
(* the cut is good exactly when the speed is at least 1.5 and, for a note  *)
(* with a direction, the normalized velocity has a dot product of at least *)
(* 0.3 with it; otherwise it is weak (so with a velocity of zero).  The    *)
(* quality is read off the score updates the frame queues: 150 times the   *)
(* multiplier of the closure for a good cut, 100 times for a weak one.     *)
SpeedAtLeast(v) == LengthSq(v) >= 150 * 150

DotAtLeast(v, dir) ==
    /\ LengthSq(v) > 0
    /\ Dot(v, dir) >= 0
    /\ 100 * Dot(v, dir) * Dot(v, dir) >= 9 * LengthSq(v)

QualityGood(note, v) ==
    IF note.cutDirection = "ANY"
    THEN SpeedAtLeast(v)
    ELSE DotAtLeast(v, DIRECTION_VECTORS[note.cutDirection]) /\ SpeedAtLeast(v)

HitNow(good) ==
    { n \in NoteIds :
        /\ ~ notes[n].hit
        /\ notes'[n].hit
        /\ QualityGood(ChartNote(n), HandVel(ChartNote(n), hands)) = good }

ScoreQueuedNow(val) ==
    { i \in Len(pending) + 1 .. Len(pending') :
        pending'[i].hook = "score" /\ pending'[i].val = val }

C16_QualityStep ==
    /\ \A n \in NoteIds :
          (~ Resolved(n) /\ notes'[n].hit)
              => (~ notes'[n].missed /\ evCount'[n] = 1)
    /\ \A good \in BOOLEAN :
          Cardinality(HitNow(good))
              = Cardinality(ScoreQueuedNow(
                    (IF good THEN 150 ELSE 100) * multiplier))

C16_HitQuality == [][C16_QualityStep]_vars

(* C16 witness: notes hit with a good cut and notes hit with a weak cut    *)
(* by a hand that moves fast, but across the direction the note asks for.  *)
C16_Witness ==
    /\ \E n \in NoteIds :
          /\ notes[n].hit
          /\ ChartNote(n).cutDirection = "ANY"
          /\ QualityGood(ChartNote(n), HandVel(ChartNote(n), hands))
    /\ \E n \in NoteIds :
          /\ notes[n].hit
          /\ ChartNote(n).cutDirection = "DOWN"
          /\ SpeedAtLeast(HandVel(ChartNote(n), hands))
          /\ ~ QualityGood(ChartNote(n), HandVel(ChartNote(n), hands))

(* C17: with a hand that is never tracked, once a frame has run at a       *)
(* playback time of at least time + MISS_Z / NOTE_SPEED of a note, exactly *)
(* one Missed event has been emitted for the note; and once the events are *)
(* rendered, combo is 0 and health is 100 less 15 for every miss (0 at     *)
(* least).                                                                 *)
MissedCount == Cardinality({ n \in NoteIds : notes[n].missed })

C17_MissedByDeadline ==
    /\ AfterFrame
          => \A n \in NoteIds :
                audioTime >= ChartNote(n).time + MISS_Z \div NOTE_SPEED
                    => (notes[n].missed /\ evCount[n] = 1)
    /\ (pending = << >> /\ gameStatus = "PLAYING")
          => /\ combo = 0
             /\ health = IF 100 - 15 * MissedCount > 0
                          THEN 100 - 15 * MissedCount ELSE 0

(***************************************************************************)
(* C18: when a hand comes back after the detector lost it for one or more  *)
(* cycles, its velocity is worked out once, as (new position - last        *)
(* position it was given) / (time since it was given that position).       *)
(***************************************************************************)
Returned(pos, newPos, seenPos) ==
    pos = NoHand /\ newPos # NoHand /\ seenPos # NoHand

VelocityAcrossGap(vel, newPos, seenPos, age) ==
    \E deltaTime \in DeltaTimes :
        /\ vel.x * (age + deltaTime) = (newPos.x - seenPos.x) * 1000
        /\ vel.y * (age + deltaTime) = (newPos.y - seenPos.y) * 1000
        /\ vel.z * (age + deltaTime) = (newPos.z - seenPos.z) * 1000

C18_ReturnStep ==
    /\ Returned(hands.left, hands'.left, lastSeen.left)
          => VelocityAcrossGap(hands'.leftVelocity, hands'.left,
                               lastSeen.left, lastSeen.leftAge)
    /\ Returned(hands.right, hands'.right, lastSeen.right)
          => VelocityAcrossGap(hands'.rightVelocity, hands'.right,
                               lastSeen.right, lastSeen.rightAge)

C18_VelocityAcrossGap == [][C18_ReturnStep]_vars

(***************************************************************************)
(* C19: after a processResults call whose detection holds no landmark of a *)
(* side, the position of that hand is null (the position it had is not     *)
(* kept), and no frame hits a note of a hand whose position is null.       *)
(***************************************************************************)
C19_AbsentSideNull ==
    /\ "Left" \notin lastSeen.sides => hands.left = NoHand
    /\ "Right" \notin lastSeen.sides => hands.right = NoHand

C19_NoHitStep ==
    \A n \in NoteIds :
        HandPos(ChartNote(n), hands) = NoHand
            => (notes'[n].hit => notes[n].hit)

C19_LostHandUntracked == [] C19_AbsentSideNull /\ [][C19_NoHitStep]_vars

(* C19 witness: the left hand was tracked and moving, the last detection   *)
(* did not hold it, and a frame has left a left note in the collision      *)
(* window without outcome.                                                 *)
C19_Witness ==
    /\ AfterFrame
    /\ "Left" \notin lastSeen.sides
    /\ hands.left = NoHand
    /\ hands.leftVelocity # ZeroVel
    /\ \E i \in 1 .. Len(activeNotes) :
          LET note == ChartNote(activeNotes[i])
          IN  /\ note.type = "left"
              /\ ~ Resolved(activeNotes[i])
              /\ InCollisionWindow(CurrentZ(note, audioTime))

(***************************************************************************)
(* C20: a hand that is given a position while it had none (its first       *)
(* detection, or the first one after the detector lost it) has velocity    *)
(* zero, so that no velocity from before a gap is judged after it.         *)
(***************************************************************************)
C20_FirstSampleStep ==
    /\ (hands.left = NoHand /\ hands'.left # NoHand)
          => hands'.leftVelocity = ZeroVel
    /\ (hands.right = NoHand /\ hands'.right # NoHand)
          => hands'.rightVelocity = ZeroVel

C20_FirstSampleAtRest == [][C20_FirstSampleStep]_vars

(***************************************************************************)
(* C21: when detectForVideo throws in a cycle, both hands are untracked    *)
(* for that cycle: after it the position of either hand is null.           *)
(***************************************************************************)
C21_FailureUntracks ==
    lastSeen.caught = "detectForVideo"
        => (hands.left = NoHand /\ hands.right = NoHand)

(***************************************************************************)
(* C22: after a detection with an entry without classification, a hand is  *)
(* tracked exactly if a landmark of the same detection is classified as    *)
(* its side: the other hand is updated, the unclassified one is absent.    *)
(***************************************************************************)
C22_MalformedUpdatesOther ==
    lastSeen.caught = "processResults"
        => /\ hands.left # NoHand <=> "Left" \in lastSeen.offered
           /\ hands.right # NoHand <=> "Right" \in lastSeen.offered

(***************************************************************************)
(* C23: when audio.play() is rejected for a start command, the status      *)
(* stays IDLE: the step leaves the status IDLE with no change to PLAYING   *)
(* queued and no startGame call suspended, and an IDLE status with nothing *)
(* of that outstanding is left by no step, so the frame loop stays gated   *)
(* until another start command.                                            *)
(***************************************************************************)
PlayingQueued(q) ==
    \E i \in 1 .. Len(q) : q[i].hook = "status" /\ q[i].val = "PLAYING"

C23_RejectStep ==
    (playPromises > 0 /\ playPromises' = 0 /\ ~ audioPlaying')
        => /\ gameStatus = "IDLE"
           /\ gameStatus' = "IDLE"
           /\ ~ PlayingQueued(pending')

C23_IdleStep ==
    (gameStatus = "IDLE" /\ playPromises = 0 /\ ~ PlayingQueued(pending))
        => gameStatus' = "IDLE"

C23_FailedStartStaysIdle == [][C23_RejectStep /\ C23_IdleStep]_vars

(* C23 witness: a start command was given (the session is reset and no     *)
(* frame of it has run), its play() is settled, the audio does not play    *)
(* and the status is IDLE with nothing queued.                             *)
C23_Witness ==
    /\ gameStatus = "IDLE"
    /\ fresh
    /\ playPromises = 0
    /\ pending = << >>
    /\ ~ audioPlaying

(***************************************************************************)
(* C24: the status leaves LOADING, a startGame call passes its guard and   *)
(* PLAYING is entered only with the camera ready; while the camera is not  *)
(* ready no step starts a session; a failed initialisation is recorded in  *)
(* error and leaves the application in LOADING.                            *)
(***************************************************************************)
C24_ReadyState ==
    /\ gameStatus # "LOADING" => isCameraReady
    /\ playPromises > 0 => isCameraReady
    /\ PlayingQueued(pending) => isCameraReady
    /\ error # NoError => (~ isCameraReady /\ gameStatus = "LOADING")

C24_NotReadyStep ==
    ~ isCameraReady
        => /\ UNCHANGED << gameStatus, score, combo, multiplier, health,
                           notes, playPromises, pending, audioTime >>
           /\ error # NoError => error' = error

C24_PlayingNeedsCamera == [] C24_ReadyState /\ [][C24_NotReadyStep]_vars

(* C24 witness: the initialisation has failed, the message is recorded and *)
(* the application is still in LOADING.                                    *)
C24_Witness ==
    /\ error = "Could not access camera."
    /\ gameStatus = "LOADING"
    /\ ~ isCameraReady

(***************************************************************************)
(* C25: the game is a function of its inputs (the playback time of each    *)
(* frame, the detections, the commands): what a frame adds to the score    *)
(* for a hit does not depend on whether React has already rendered the     *)
(* updates queued before the frame, which is no input.  The amount is the  *)
(* one the frame would add after that render.                              *)
(***************************************************************************)
C25_FrameStep ==
    \A i \in Len(pending) + 1 .. Len(pending') :
        pending'[i].hook = "score"
            => pending'[i].val
                  \in { Points(goodCut) * Rendered(pending).multiplier :
                           goodCut \in BOOLEAN }

C25_SameInputsSameScore == [][C25_FrameStep]_vars

(***************************************************************************)
(* C26: in a first session, after each frame of the PLAYING status that    *)
(* runs at playback time now, the notes pushed so far (the first           *)
(* nextNoteIndex notes of the chart, which is sorted by time) are exactly  *)
(* the notes with time - spawnAheadTime <= now: none is pushed earlier,    *)
(* none is left behind.                                                    *)
(***************************************************************************)
AdmittedExactly(next, now) ==
    \A n \in NoteIds : n <= next <=> ChartNote(n).time - SpawnAheadTime <= now

(* The step is a frame that passes the status gate and reads the time     *)
(* audioTime' from the audio element.                                      *)
FrameRuns == ~ Gated /\ \E eager \in BOOLEAN : Tick(audioTime', eager)

C26_FrameStep ==
    FrameRuns => AdmittedExactly(nextNoteIndex', audioTime')

C26_PlayingFrameStep ==
    (FrameRuns /\ ~ Ended(audioTime'))
        => AdmittedExactly(nextNoteIndex', audioTime')

C27_ActiveState ==
    /\ nextNoteIndex \in 0 .. NumNotes
    /\ \A i \in 1 .. Len(activeNotes) : activeNotes[i] \in 1 .. nextNoteIndex
    /\ \A i, j \in 1 .. Len(activeNotes) :
          i < j => activeNotes[i] < activeNotes[j]

C27_CursorStep ==
    /\ nextNoteIndex' >= nextNoteIndex
    /\ \A i \in 1 .. Len(activeNotes') :
          \/ Admitted(activeNotes'[i])
          \/ activeNotes'[i] \in nextNoteIndex + 1 .. nextNoteIndex'

C27_AppendOnlyAdmission == [] C27_ActiveState /\ [][C27_CursorStep]_vars

(* C27 witness: a session started after the cursor has reached the length  *)
(* of the chart, before its first frame; the last note is still active,    *)
(* with others before it.                                                  *)
C27_Witness ==
    /\ nextNoteIndex = NumNotes
    /\ Admitted(NumNotes)
    /\ Len(activeNotes) > 1
    /\ gameStatus = "PLAYING"
    /\ fresh

(***************************************************************************)
(* C28: however detector cycles and frames interleave, the hand state a    *)
(* frame reads is the one the last completed processResults call has left: *)
(* the hand state changes only by a whole call (both hands, positions and  *)
(* velocities, from one detection), a frame leaves it as it is, so that    *)
(* the next frame reads the same values when no call has come in between,  *)
(* and a frame never waits for a detection: while the status is not        *)
(* LOADING a frame can run in every state, whatever the detector has done  *)
(* (evaluated in the states with at most MaxActiveChecked active notes).   *)
(***************************************************************************)
C28_WholeUpdateStep ==
    hands' # hands
        => \E landmarks \in GameDetectionSets, deltaTime \in GameDeltaTimes :
              /\ hands' = ProcessResults(landmarks, deltaTime)
              /\ lastSeen'.sides = Sides(landmarks)

C28_ReadStep ==
    FrameRuns => (hands' = hands /\ lastSeen' = lastSeen)

C28_FrameNeverWaits ==
    (/\ gameStatus # "LOADING"
     /\ Len(pending) <= MaxPending
     /\ Len(activeNotes) <= MaxActiveChecked)
        => ENABLED (\E time \in 0 .. SongLength, eager \in BOOLEAN :
                       Tick(time, eager))

SlotPos(note) ==
    Vec(LANE_X_POSITIONS[note.lineIndex + 1],
        LAYER_Y_POSITIONS[note.lineLayer + 1], PLAYER_Z)

OutsideWindow(z) ==
    /\ z <= PLAYER_Z - 150 \/ z >= PLAYER_Z + 100
    /\ z <= MISS_Z

C29_FrameStep ==
    FrameRuns
        => \A n \in NoteIds :
              (~ Resolved(n) /\ OutsideWindow(CurrentZ(ChartNote(n), audioTime')))
                  => (notes'[n] = notes[n] /\ evCount'[n] = evCount[n])

C29_OutsideWindowStaysPending == [][C29_FrameStep]_vars

(* C29 witness: a frame has judged an active note that has passed the      *)
(* window without being hit and is not yet beyond MISS_Z, with the note's  *)
(* hand tracked within 0.8 of the note's slot: the note has no outcome.    *)
C29_Witness ==
    /\ AfterFrame
    /\ \E i \in 1 .. Len(activeNotes) :
          LET note == ChartNote(activeNotes[i])
          IN  /\ ~ Resolved(activeNotes[i])
              /\ CurrentZ(note, audioTime) >= PLAYER_Z + 100
              /\ CurrentZ(note, audioTime) <= MISS_Z
              /\ HandPos(note, hands) # NoHand
              /\ DistanceSq(HandPos(note, hands), SlotPos(note)) < 80 * 80

(***************************************************************************)
(* C30: the hit test of a note reads the hand of the note's type only: a   *)
(* frame hits a note only with that hand tracked and less than 0.8 from    *)
(* the note, and with that hand's position null a note that is not beyond  *)
(* MISS_Z keeps its flags, also when the other hand is at the note's slot. *)
(***************************************************************************)
RequiredHand(note) == IF note.type = "left" THEN hands.left ELSE hands.right

OtherHand(note) == IF note.type = "left" THEN hands.right ELSE hands.left

C30_FrameStep ==
    \A n \in NoteIds :
        LET note == ChartNote(n)
        IN  /\ (~ notes[n].hit /\ notes'[n].hit)
                  => /\ RequiredHand(note) # NoHand
                     /\ DistanceSq(RequiredHand(note),
                                   NotePos(note, audioTime')) < 80 * 80
            /\ (/\ FrameRuns
                /\ ~ Resolved(n)
                /\ RequiredHand(note) = NoHand
                /\ CurrentZ(note, audioTime') <= MISS_Z)
                  => (notes'[n] = notes[n] /\ evCount'[n] = evCount[n])

C30_OnlyRequiredHandHits == [][C30_FrameStep]_vars

(* C30 witness: a frame has judged an active note inside the window whose  *)
(* hand is not tracked, with the other hand at the note's lane and layer   *)
(* and less than 0.8 from the note: the note has no outcome.               *)
C30_Witness ==
    /\ AfterFrame
    /\ \E i \in 1 .. Len(activeNotes) :
          LET note == ChartNote(activeNotes[i])
          IN  /\ ~ Resolved(activeNotes[i])
              /\ InCollisionWindow(CurrentZ(note, audioTime))
              /\ RequiredHand(note) = NoHand
              /\ OtherHand(note) # NoHand
              /\ OtherHand(note).x = LANE_X_POSITIONS[note.lineIndex + 1]
              /\ OtherHand(note).y = LAYER_Y_POSITIONS[note.lineLayer + 1]
              /\ DistanceSq(OtherHand(note), NotePos(note, audioTime))
                    < 80 * 80

(***************************************************************************)
(* C31: a processResults call that comes not more than 1 ms after the      *)
(* previous one leaves the velocity of a hand it detects as it is, and     *)
(* still replaces the hand's position: by the detected position smoothed   *)
(* with the one the hand had, or by the detected position when it had      *)
(* none.                                                                   *)
(***************************************************************************)
MinDeltaTime == 1

Replaced(pos, newPos, tips) ==
    \E tip \in tips :
        LET worldPos == MapHandToWorld(tip.x, tip.y)
        IN  newPos = IF pos = NoHand THEN worldPos
                     ELSE Vec(pos.x + ((worldPos.x - pos.x) * 3) \div 5,
                              pos.y + ((worldPos.y - pos.y) * 3) \div 5,
                              pos.z + ((worldPos.z - pos.z) * 3) \div 5)

C31_ShortStep ==
    (lastSeen' # lastSeen /\ lastSeen'.caught = "none"
        /\ lastSeen'.deltaTime <= MinDeltaTime)
        => /\ "Left" \in lastSeen'.sides
                 => /\ hands'.leftVelocity = hands.leftVelocity
                    /\ Replaced(hands.left, hands'.left, LeftTips)
           /\ "Right" \in lastSeen'.sides
                 => /\ hands'.rightVelocity = hands.rightVelocity
                    /\ Replaced(hands.right, hands'.right, RightTips)

C31_ShortDeltaKeepsVelocity == [][C31_ShortStep]_vars

(* C31 witness: the last call came 1 ms after the one before and detected  *)
(* the left hand, which is moving and at a smoothed position, between the  *)
(* positions the detector has reported.                                    *)
C31_Witness ==
    /\ lastSeen.caught = "none"
    /\ lastSeen.deltaTime = MinDeltaTime
    /\ "Left" \in lastSeen.sides
    /\ hands.leftVelocity # ZeroVel
    /\ hands.left \notin { MapHandToWorld(tip.x, tip.y) : tip \in LeftTips }

(***************************************************************************)
(* C32: when one detection holds two landmarks classified as the same      *)
(* side, the one that comes later in results.landmarks gives the raw       *)
(* position of that hand (which is smoothed with the position the hand     *)
(* had, if any), and the other side, of which the detection holds no       *)
(* landmark, has a null position after the call.                           *)
(***************************************************************************)
IndicesOf(side, landmarks) ==
    { i \in 1 .. Len(landmarks) : landmarks[i].categoryName = side }

LaterOf(side, landmarks) ==
    LET i == CHOOSE i \in IndicesOf(side, landmarks) :
                  \A j \in IndicesOf(side, landmarks) : j <= i
    IN  MapHandToWorld(landmarks[i].x, landmarks[i].y)

GivenBy(pos, raw) ==
    IF pos = NoHand THEN raw
    ELSE Vec(pos.x + ((raw.x - pos.x) * 3) \div 5,
             pos.y + ((raw.y - pos.y) * 3) \div 5,
             pos.z + ((raw.z - pos.z) * 3) \div 5)

Twice(side, landmarks) == Cardinality(IndicesOf(side, landmarks)) = 2

C32_DuplicateStep ==
    (lastSeen'.caught = "none" /\ (hands' # hands \/ lastSeen' # lastSeen))
        => /\ Twice("Left", lastSeen'.landmarks)
                 => /\ hands'.left
                          = GivenBy(hands.left,
                                    LaterOf("Left", lastSeen'.landmarks))
                    /\ hands'.right = NoHand
           /\ Twice("Right", lastSeen'.landmarks)
                 => /\ hands'.right
                          = GivenBy(hands.right,
                                    LaterOf("Right", lastSeen'.landmarks))
                    /\ hands'.left = NoHand

C32_LaterLandmarkWins == [][C32_DuplicateStep]_vars

(* C32 witness: the last detection held the left hand twice, at its slot   *)
(* and then below it, 50 ms after the detection before; the left hand has  *)
(* moved down towards the later position and the right hand is not         *)
(* tracked.                                                                *)
C32_Witness ==
    /\ lastSeen.caught = "none"
    /\ lastSeen.landmarks = << LeftHomeTip, LeftLowTip >>
    /\ lastSeen.deltaTime > MinDeltaTime
    /\ hands.left # NoHand
    /\ hands.leftVelocity.y < 0
    /\ hands.right = NoHand

(***************************************************************************)
(* C33: every note pushed to the active notes gets its outcome: once a     *)
(* frame of the PLAYING status runs at a playback time above the note's    *)
(* time + MISS_Z / NOTE_SPEED, the note is hit or missed and no longer     *)
(* among the active notes; and the active notes never hold a note that has *)
(* its outcome.                                                            *)
(***************************************************************************)
Expired(n, time) == time * NOTE_SPEED > ChartNote(n).time * NOTE_SPEED + MISS_Z

Judged(n) ==
    /\ notes'[n].hit \/ notes'[n].missed
    /\ \A i \in 1 .. Len(activeNotes') : activeNotes'[i] # n

C33_OnlyPendingActive ==
    \A i \in 1 .. Len(activeNotes) : ~ Resolved(activeNotes[i])

C33_EveryFrameStep ==
    FrameRuns
        => \A n \in NoteIds :
              (/\ Admitted(n) \/ n \in nextNoteIndex + 1 .. nextNoteIndex'
               /\ Expired(n, audioTime'))
                  => Judged(n)

C33_JudgingFrameStep ==
    (FrameRuns /\ ~ Ended(audioTime'))
        => \A n \in NoteIds :
              (/\ Admitted(n) \/ n \in nextNoteIndex + 1 .. nextNoteIndex'
               /\ Expired(n, audioTime'))
                  => Judged(n)

C34_GameOverAtZeroHealth == gameStatus = "GAME_OVER" => health = 0

(***************************************************************************)
(* C35: the score is never negative and goes down only by a start command  *)
(* (startGame sets it to 0): every score update queued adds an amount      *)
(* above 0, a frame queues one score update for each note it hits and none *)
(* for a note it misses, and a render that applies a score update raises   *)
(* the score.                                                              *)
(***************************************************************************)
ScoreUpdates(q) == { i \in 1 .. Len(q) : q[i].hook = "score" }

C35_ScoreState ==
    /\ score >= 0
    /\ \A i \in ScoreUpdates(pending) :
          pending[i].op = "add" /\ pending[i].val > 0

C35_ScoreStep ==
    /\ score' < score
          => (gameStatus = "IDLE" /\ score' = 0 /\ fresh'
                /\ playPromises' = playPromises + 1)
    /\ FrameRuns
          => Cardinality({ i \in Len(pending) + 1 .. Len(pending') :
                              pending'[i].hook = "score" })
                = Cardinality({ n \in NoteIds :
                                   ~ notes[n].hit /\ notes'[n].hit })
    /\ (ScoreUpdates(pending) # {} /\ pending' = << >>) => score' > score

C35_ScoreNeverDecreases == [] C35_ScoreState /\ [][C35_ScoreStep]_vars

(* C35 witness: in a session notes were hit and notes were missed, every   *)
(* update is rendered and the score is above 0.                            *)
C35_Witness ==
    /\ gameStatus = "PLAYING"
    /\ pending = << >>
    /\ score > 0
    /\ \E n \in NoteIds : notes[n].hit
    /\ \E n \in NoteIds : notes[n].missed /\ evCount[n] > 0

=============================================================================
